---------------------------- MODULE Spec2Model ----------------------------
(***************************************************************************)
(* Wallet template constructors of mycitadel-desktop                       *)
(* (src/src/model/template.rs): WalletTemplate::singlesig, ::hodling and   *)
(* ::multisig.  Each constructor is a one-shot function of its arguments   *)
(* and, for hodling and multisig, of the wall clock read by Utc::now().    *)
(* A Rust panic is modelled as a result that carries no template.          *)
(***************************************************************************)
EXTENDS Integers, Sequences, FiniteSets

VARIABLES pc, now, call, result

vars == <<pc, now, call, result>>

(***************************************************************************)
(* Bounds of the explored inputs.                                          *)
(***************************************************************************)
MaxYearOffset == 1
MaxSigs == 5

U16Max == 65535

(***************************************************************************)
(* The wall clock: calendar instants of the proleptic Gregorian calendar.  *)
(***************************************************************************)
Years == 2024..(2024 + MaxYearOffset)

SecondsOfDay == {0, 86399}

IsLeapYear(y) == (y % 4 = 0) /\ ((y % 100 # 0) \/ (y % 400 = 0))

DaysInMonth(y, m) ==
    IF m = 2 THEN (IF IsLeapYear(y) THEN 29 ELSE 28)
    ELSE IF m \in {4, 6, 9, 11} THEN 30 ELSE 31

Instants ==
    {t \in [year : Years, month : 1..12, day : 1..31, secs : SecondsOfDay] :
        t.day <= DaysInMonth(t.year, t.month)}

(***************************************************************************)
(* Option<T>                                                               *)
(***************************************************************************)
None == [tag |-> "None"]
Some(x) == [tag |-> "Some", val |-> x]

(***************************************************************************)
(* DateTime::with_year: the same instant in another year, or None when     *)
(* that calendar date does not exist (29 February of a non-leap year).     *)
(***************************************************************************)
with_year(dt, y) ==
    IF dt.day <= DaysInMonth(y, dt.month)
    THEN Some([dt EXCEPT !.year = y])
    ELSE None

(***************************************************************************)
(* Data model                                                              *)
(***************************************************************************)
Requirement == {"Allow", "Require", "Deny"}

PublicNetwork == {"Mainnet", "Testnet", "Signet"}

All == [tag |-> "All"]
Any == [tag |-> "Any"]
AtLeast(k) == [tag |-> "AtLeast", k |-> k]

Anytime == [tag |-> "Anytime"]
AfterTime(t) == [tag |-> "AfterTime", time |-> t]

SpendingCondition(sigs, timelock) == [sigs |-> sigs, timelock |-> timelock]

SpendingCondition_default == SpendingCondition(All, Anytime)

singlesig_segwit0 == "singlesig_segwit0"
singlelsig_taproot == "singlelsig_taproot"
multisig_descriptor == "multisig_descriptor"

WalletTemplate(format, min_signer_count, max_signer_count, hardware_req, watch_only_req, conditions, network) ==
    [format |-> format,
     min_signer_count |-> min_signer_count,
     max_signer_count |-> max_signer_count,
     hardware_req |-> hardware_req,
     watch_only_req |-> watch_only_req,
     conditions |-> conditions,
     network |-> network]

(***************************************************************************)
(* Outcomes of a call: a returned template, or a panic.                    *)
(***************************************************************************)
Ok(t) == [status |-> "Ok", template |-> t]
Panic(kind) == [status |-> kind]

InvalidSignerCount == "InvalidSignerCount"
InvalidMultisigThreshold == "InvalidMultisigThreshold"
UnwrapNone == "UnwrapNone"

(***************************************************************************)
(* WalletTemplate::singlesig                                               *)
(***************************************************************************)
singlesig_format(taproot) ==
    IF taproot THEN singlesig_segwit0 ELSE singlelsig_taproot

singlesig_hardware_req(require_hardware) ==
    IF require_hardware THEN "Require" ELSE "Deny"

singlesig_watch_only_req_same(require_hardware) ==
    IF require_hardware THEN "Require" ELSE "Deny"

singlesig_watch_only_req(require_hardware) ==
    IF require_hardware THEN "Deny" ELSE "Require"

singlesig(taproot, network, require_hardware) ==
    Ok(WalletTemplate(singlesig_format(taproot),
                      Some(1),
                      Some(1),
                      singlesig_hardware_req(require_hardware),
                      singlesig_watch_only_req(require_hardware),
                      <<SpendingCondition_default>>,
                      network))

(***************************************************************************)
(* WalletTemplate::hodling                                                 *)
(***************************************************************************)
hodling_too_few_lt2(sigs_required) == sigs_required < 2

hodling_too_few(sigs_required) == sigs_required < 3

hodling(t, network, sigs_required, hardware_req, watch_only_req) ==
    IF hodling_too_few(sigs_required)
    THEN Panic(InvalidSignerCount)
    ELSE LET t5 == with_year(t, t.year + 5) IN
         IF t5.tag = "None"
         THEN Panic(UnwrapNone)
         ELSE Ok(WalletTemplate(
                    multisig_descriptor,
                    Some(sigs_required),
                    None,
                    hardware_req,
                    watch_only_req,
                    <<SpendingCondition(All, Anytime),
                      SpendingCondition(Any, AfterTime(t5.val))>>,
                    network))

(***************************************************************************)
(* WalletTemplate::multisig                                                *)
(***************************************************************************)
Conditions(c) == [status |-> "Ok", conditions |-> c]

multisig_arm_2(t) ==
    LET t5 == with_year(t, t.year + 5) IN
    IF t5.tag = "None"
    THEN Panic(UnwrapNone)
    ELSE Conditions(<<SpendingCondition(All, Anytime),
                      SpendingCondition(Any, AfterTime(t5.val))>>)

multisig_arm_3(t) ==
    LET t5 == with_year(t, t.year + 5) IN
    IF t5.tag = "None"
    THEN Panic(UnwrapNone)
    ELSE Conditions(<<SpendingCondition(AtLeast(2), Anytime),
                      SpendingCondition(Any, AfterTime(t5.val))>>)

multisig_arm_count_swapped(t, count) ==
    LET t3 == with_year(t, t.year + 5)
        t5 == with_year(t, t.year + 3)
    IN
    IF t3.tag = "None" \/ t5.tag = "None"
    THEN Panic(UnwrapNone)
    ELSE Conditions(<<SpendingCondition(AtLeast(count - 1), Anytime),
                      SpendingCondition(AtLeast((count \div 2) + (count % 2)),
                                        AfterTime(t3.val)),
                      SpendingCondition(Any, AfterTime(t5.val))>>)

multisig_arm_count(t, count) ==
    LET t3 == with_year(t, t.year + 3)
        t5 == with_year(t, t.year + 5)
    IN
    IF t3.tag = "None" \/ t5.tag = "None"
    THEN Panic(UnwrapNone)
    ELSE Conditions(<<SpendingCondition(AtLeast(count - 1), Anytime),
                      SpendingCondition(AtLeast((count \div 2) + (count % 2)),
                                        AfterTime(t3.val)),
                      SpendingCondition(Any, AfterTime(t5.val))>>)

multisig_conditions_only0(t, sigs_required) ==
    IF sigs_required.tag = "None"
    THEN Conditions(<<SpendingCondition_default>>)
    ELSE IF sigs_required.val = 0 THEN Panic(InvalidMultisigThreshold)
    ELSE IF sigs_required.val \in {1, 2} THEN multisig_arm_2(t)
    ELSE IF sigs_required.val = 3 THEN multisig_arm_3(t)
    ELSE multisig_arm_count(t, sigs_required.val)

multisig_conditions(t, sigs_required) ==
    IF sigs_required.tag = "None"
    THEN Conditions(<<SpendingCondition_default>>)
    ELSE IF sigs_required.val \in {0, 1} THEN Panic(InvalidMultisigThreshold)
    ELSE IF sigs_required.val = 2 THEN multisig_arm_2(t)
    ELSE IF sigs_required.val = 3 THEN multisig_arm_3(t)
    ELSE multisig_arm_count(t, sigs_required.val)

multisig_min_signer_count_or1(sigs_required) ==
    IF sigs_required.tag = "Some" THEN sigs_required ELSE Some(1)

multisig_min_signer_count(sigs_required) ==
    IF sigs_required.tag = "Some" THEN sigs_required ELSE Some(2)

multisig(t, network, sigs_required, hardware_req, watch_only_req) ==
    IF multisig_conditions(t, sigs_required).status # "Ok"
    THEN multisig_conditions(t, sigs_required)
    ELSE Ok(WalletTemplate(multisig_descriptor,
                           multisig_min_signer_count(sigs_required),
                           None,
                           hardware_req,
                           watch_only_req,
                           multisig_conditions(t, sigs_required).conditions,
                           network))

(***************************************************************************)
(* Arguments the callers may pass.                                         *)
(***************************************************************************)
U16Values == (0..MaxSigs) \cup {U16Max - 1, U16Max}

OptionU16Values == {None} \cup {Some(n) : n \in U16Values}

(***************************************************************************)
(* State machine: one constructor call at an arbitrary instant.            *)
(***************************************************************************)
Init ==
    /\ pc = "idle"
    /\ now \in Instants
    /\ call = [none |-> <<>>]
    /\ result = [status |-> "NotCalled"]

CallSinglesig ==
    /\ pc = "idle"
    /\ \E taproot \in BOOLEAN, network \in PublicNetwork,
          require_hardware \in BOOLEAN :
        /\ call' = [singlesig |->
                       [taproot |-> taproot, network |-> network,
                        require_hardware |-> require_hardware]]
        /\ result' = singlesig(taproot, network, require_hardware)
    /\ pc' = "done"
    /\ UNCHANGED now

CallHodling ==
    /\ pc = "idle"
    /\ \E network \in PublicNetwork, sigs_required \in U16Values,
          hardware_req \in Requirement, watch_only_req \in Requirement :
        /\ call' = [hodling |->
                       [network |-> network,
                        sigs_required |-> sigs_required,
                        hardware_req |-> hardware_req,
                        watch_only_req |-> watch_only_req]]
        /\ result' = hodling(now, network, sigs_required, hardware_req,
                             watch_only_req)
    /\ pc' = "done"
    /\ UNCHANGED now

CallMultisig ==
    /\ pc = "idle"
    /\ \E network \in PublicNetwork, sigs_required \in OptionU16Values,
          hardware_req \in Requirement, watch_only_req \in Requirement :
        /\ call' = [multisig |->
                       [network |-> network,
                        sigs_required |-> sigs_required,
                        hardware_req |-> hardware_req,
                        watch_only_req |-> watch_only_req]]
        /\ result' = multisig(now, network, sigs_required, hardware_req,
                              watch_only_req)
    /\ pc' = "done"
    /\ UNCHANGED now

Next == CallSinglesig \/ CallHodling \/ CallMultisig

Spec == Init /\ [][Next]_vars

(***************************************************************************)
(* Vocabulary of the properties.                                           *)
(***************************************************************************)
Done(fn) == pc = "done" /\ fn \in DOMAIN call

Returned == result.status = "Ok"

PlusYears(t, k) == [t EXCEPT !.year = t.year + k]

CeilHalf(n) == (n + 1) \div 2

IsLeapDay(t) == t.month = 2 /\ t.day = 29

InstantBefore(a, b) ==
    \/ a.year < b.year
    \/ a.year = b.year /\ a.month < b.month
    \/ a.year = b.year /\ a.month = b.month /\ a.day < b.day
    \/ a.year = b.year /\ a.month = b.month /\ a.day = b.day
       /\ a.secs < b.secs

TimelockBefore(a, b) ==
    /\ b.tag = "AfterTime"
    /\ (a.tag = "AfterTime" => InstantBefore(a.time, b.time))

ThresholdOf(sigs, n) ==
    IF sigs.tag = "All" THEN n
    ELSE IF sigs.tag = "Any" THEN 1
    ELSE sigs.k

MultisigOver3 ==
    /\ Done("multisig")
    /\ call.multisig.sigs_required.tag = "Some"
    /\ call.multisig.sigs_required.val > 3

\* C1: for every n > 3 and every now, multisig(network, Some(n), ...)
\* returns exactly the three tiers (AtLeast(n - 1), Anytime),
\* (AtLeast(ceil(n / 2)), AfterTime(now + 3 years)),
\* (Any, AfterTime(now + 5 years)), with min_signer_count = Some(n) and
\* max_signer_count = None.
C1_GraduatedDecay ==
    MultisigOver3 =>
        LET n == call.multisig.sigs_required.val IN
        /\ Returned
        /\ result.template.conditions =
             <<SpendingCondition(AtLeast(n - 1), Anytime),
               SpendingCondition(AtLeast(CeilHalf(n)),
                                 AfterTime(PlusYears(now, 3))),
               SpendingCondition(Any, AfterTime(PlusYears(now, 5)))>>
        /\ result.template.min_signer_count = Some(n)
        /\ result.template.max_signer_count = None

PassesValidation ==
    \/ Done("singlesig")
    \/ Done("hodling") /\ call.hodling.sigs_required >= 3
    \/ Done("multisig")
       /\ (call.multisig.sigs_required.tag = "None"
           \/ call.multisig.sigs_required.val >= 2)

\* C2: for every now (29 February included) a call whose arguments pass
\* validation returns a WalletTemplate; a call fails only with
\* InvalidSignerCount (hodling, sigs_required < 3) or with
\* InvalidMultisigThreshold (multisig, Some(0) or Some(1)).
C2_OnlyValidationErrors ==
    pc = "done" =>
        /\ PassesValidation => Returned
        /\ result.status \in {"Ok", InvalidSignerCount,
                              InvalidMultisigThreshold}
        /\ result.status = InvalidSignerCount =>
              Done("hodling") /\ call.hodling.sigs_required < 3
        /\ result.status = InvalidMultisigThreshold =>
              Done("multisig")
              /\ call.multisig.sigs_required \in {Some(0), Some(1)}

\* C3: for every n > 3, in the conditions multisig(network, Some(n), ...)
\* returns, the thresholds (All = n, AtLeast(k) = k, Any = 1) never increase
\* from a tier to the next and the timelocks strictly increase from a tier
\* to the next.
C3_DecayMonotone ==
    (MultisigOver3 /\ Returned) =>
        LET cs == result.template.conditions
            n == call.multisig.sigs_required.val
        IN  \A i \in 1..(Len(cs) - 1) :
              /\ ThresholdOf(cs[i].sigs, n) >= ThresholdOf(cs[i + 1].sigs, n)
              /\ TimelockBefore(cs[i].timelock, cs[i + 1].timelock)

C3_Witness ==
    /\ MultisigOver3
    /\ Returned
    /\ Len(result.template.conditions) = 3
    /\ call.multisig.sigs_required.val = U16Max

\* C4: singlesig picks the single-sig taproot format when taproot is true
\* and the single-sig segwit v0 format when taproot is false, whatever
\* require_hardware is.
C4_FormatFollowsTaproot ==
    Done("singlesig") =>
        /\ Returned
        /\ result.template.format =
             IF call.singlesig.taproot THEN singlelsig_taproot
             ELSE singlesig_segwit0

\* C5: for every sigs_required >= 3 and every now, hodling returns exactly
\* the two tiers (All, Anytime), (Any, AfterTime(now + 5 years)) with
\* min_signer_count = Some(sigs_required), max_signer_count = None and the
\* caller's hardware_req, watch_only_req and network.
C5_HodlingTemplate ==
    (Done("hodling") /\ call.hodling.sigs_required >= 3) =>
        /\ Returned
        /\ result.template.conditions =
             <<SpendingCondition(All, Anytime),
               SpendingCondition(Any, AfterTime(PlusYears(now, 5)))>>
        /\ result.template.min_signer_count =
             Some(call.hodling.sigs_required)
        /\ result.template.max_signer_count = None
        /\ result.template.hardware_req = call.hodling.hardware_req
        /\ result.template.watch_only_req = call.hodling.watch_only_req
        /\ result.template.network = call.hodling.network

\* C6: for sigs_required in {0, 1, 2}, and every hardware_req,
\* watch_only_req, network and now, hodling fails with InvalidSignerCount
\* and produces no template.
C6_HodlingRejectsFewSigners ==
    (Done("hodling") /\ call.hodling.sigs_required \in {0, 1, 2}) =>
        /\ result.status = InvalidSignerCount
        /\ "template" \notin DOMAIN result

C6_Witness ==
    /\ Done("hodling")
    /\ call.hodling.sigs_required = 2
    /\ IsLeapDay(now)
    /\ result.status = InvalidSignerCount

\* C7: multisig fails with InvalidMultisigThreshold, producing no template,
\* exactly when sigs_required is Some(0) or Some(1); absent or n >= 2 never
\* fails with that condition.
C7_MultisigThresholdError ==
    Done("multisig") =>
        /\ (result.status = InvalidMultisigThreshold
              <=> call.multisig.sigs_required \in {Some(0), Some(1)})
        /\ (result.status = InvalidMultisigThreshold
              => "template" \notin DOMAIN result)

C7_Witness ==
    /\ Done("multisig")
    /\ call.multisig.sigs_required = Some(1)
    /\ result.status = InvalidMultisigThreshold

\* C8: singlesig returns, for all four combinations of its booleans,
\* min_signer_count = max_signer_count = Some(1), the single condition
\* (All, Anytime), and hardware_req = Require, watch_only_req = Deny when
\* require_hardware is true, the reverse when it is false.
C8_SinglesigTemplate ==
    Done("singlesig") =>
        /\ Returned
        /\ result.template.min_signer_count = Some(1)
        /\ result.template.max_signer_count = Some(1)
        /\ result.template.conditions = <<SpendingCondition(All, Anytime)>>
        /\ Cardinality({r \in {"hardware_req", "watch_only_req"} :
                          result.template[r] = "Require"}) = 1
        /\ Cardinality({r \in {"hardware_req", "watch_only_req"} :
                          result.template[r] = "Deny"}) = 1
        /\ result.template.hardware_req =
             IF call.singlesig.require_hardware THEN "Require" ELSE "Deny"
        /\ result.template.watch_only_req =
             IF call.singlesig.require_hardware THEN "Deny" ELSE "Require"

C8_Witness ==
    /\ Done("singlesig")
    /\ ~call.singlesig.require_hardware
    /\ call.singlesig.taproot
    /\ result.template.watch_only_req = "Require"

\* C9: for sigs_required in {2, 3}, multisig returns exactly two tiers, the
\* second (Any, AfterTime(now + 5 years)), the first with timelock Anytime
\* and sigs = All for 2, AtLeast(2) for 3; for 2 the list equals the list
\* hodling returns at the same now.
C9_SmallMultisig ==
    (Done("multisig") /\ call.multisig.sigs_required \in {Some(2), Some(3)}) =>
        /\ Returned
        /\ Len(result.template.conditions) = 2
        /\ result.template.conditions[2] =
             SpendingCondition(Any, AfterTime(PlusYears(now, 5)))
        /\ result.template.conditions[1].timelock = Anytime
        /\ result.template.conditions[1].sigs =
             IF call.multisig.sigs_required.val = 2 THEN All ELSE AtLeast(2)
        /\ call.multisig.sigs_required.val = 2 =>
             \A k \in {n \in U16Values : n >= 3} :
                LET h == hodling(now, call.multisig.network, k,
                                 call.multisig.hardware_req,
                                 call.multisig.watch_only_req)
                IN  /\ h.status = "Ok"
                    /\ h.template.conditions = result.template.conditions

=============================================================================
